---- MODULE Spec2Model ----
(***************************************************************************)
(* WeekCore (src/week-core.js): the weekly scheduling engine of Chrono.    *)
(*                                                                         *)
(* The engine object `this` is the tuple of the variables below.  Every    *)
(* method is an operator over a record `self` holding the fields of        *)
(* `this`, returning the record after the call, so that a method can be    *)
(* applied to the result of another one.  A Date is the number of whole    *)
(* days since 2026-01-01 (local time); keys are the strings the code       *)
(* formats.  A JS object used as a map is a function whose DOMAIN is the   *)
(* set of its own keys; a JS array is a function on 0..n-1 (week, slots)   *)
(* or a sequence (a day's list of ranges).                                 *)
(***************************************************************************)
EXTENDS Integers, Sequences, FiniteSets, TLC

VARIABLES
  TASKS,             \* the catalog: the sequence of task keys (this.TASKS.map(t=>t.key))
  EXACT,             \* recurring template: taskKey -> WeekRanges
  EXCEPTIONS,        \* [byDate, byWeek, byMonth]: overrides
  LAST_SCOPE,        \* taskKey -> scope
  ORDER,             \* [recurring, week, month]: order stamps
  _saveSeq,          \* next stamp
  weekOffset,        \* 0 = current week
  visibleWeekFirst,  \* Date of the visible week's Sunday
  _geom,             \* cached geometry, or NULL
  _allSlots,         \* the slot grid painted by the last completed render pass
  calls,             \* the render callbacks the last operation invoked, in order
  today,             \* the wall clock: what new Date() yields (a day)
  size,              \* what the geometry probe measureGrid() yields
  opCount,           \* number of API calls made so far
  lastCall,          \* history: the API call that produced this state
  before,            \* history: the engine as that call found it
  returned,          \* the value the last API call returned, if it returned one
  held               \* the state object the caller holds: the last one exported
                     \* by getState or passed to setState

vars == <<TASKS, EXACT, EXCEPTIONS, LAST_SCOPE, ORDER, _saveSeq, weekOffset,
          visibleWeekFirst, _geom, _allSlots, calls, today, size, opCount,
          lastCall, before, returned, held>>

(* ------------------------------ bounds -------------------------------- *)

\* API calls explored per run
MaxOps == 2
\* |weekOffset| explored
MaxWeekOffset == 1

(* ----------------------------- constants ------------------------------ *)

SLOTS_PER_DAY == 96
NoSeq == 1000000000
NULL == "null"
Scopes == {"recurring", "week", "month", "today"}
Days == 0..6
Slots == 0..(SLOTS_PER_DAY - 1)

(* --------------------------- JS object maps --------------------------- *)

Has(m, k) == k \in DOMAIN m
Put(m, k, v) == [x \in (DOMAIN m) \cup {k} |-> IF x = k THEN v ELSE m[x]]
Del(m, k) == [x \in (DOMAIN m) \ {k} |-> m[x]]
EmptyMap == [x \in {} |-> NULL]
Max(a, b) == IF a >= b THEN a ELSE b
Min(a, b) == IF a <= b THEN a ELSE b
Least(S) == CHOOSE x \in S : \A y \in S : x <= y

(* ------------------------------ Date ---------------------------------- *)

IsLeap(y) == (y % 4 = 0 /\ y % 100 # 0) \/ y % 400 = 0
DaysInYear(y) == IF IsLeap(y) THEN 366 ELSE 365
DaysInMonth(y, m) ==
  IF m = 1 THEN (IF IsLeap(y) THEN 29 ELSE 28)
  ELSE IF m \in {3, 5, 8, 10} THEN 30 ELSE 31

RECURSIVE YearFrom(_, _)
YearFrom(n, y) ==
  IF n < 0 THEN YearFrom(n + DaysInYear(y - 1), y - 1)
  ELSE IF n >= DaysInYear(y) THEN YearFrom(n - DaysInYear(y), y + 1)
  ELSE [y |-> y, n |-> n]

\* days of year y before month m (0-based), m in 0..12
DaysBefore(y, m) ==
  <<0, 31, 59, 90, 120, 151, 181, 212, 243, 273, 304, 334, 365>>[m + 1]
    + (IF m >= 2 /\ IsLeap(y) THEN 1 ELSE 0)

\* the month holding day n (0-based) of year y, and the day's offset in it
MonthFrom(y, n, m0) ==
  LET m == CHOOSE k \in m0..11 : DaysBefore(y, k) <= n /\ n < DaysBefore(y, k + 1)
  IN [m |-> m, n |-> n - DaysBefore(y, m)]

getFullYear(d) == YearFrom(d, 2026).y
getMonth(d) == LET yy == YearFrom(d, 2026) IN MonthFrom(yy.y, yy.n, 0).m
getDate(d) == LET yy == YearFrom(d, 2026) IN MonthFrom(yy.y, yy.n, 0).n + 1
getDay(d) == (d + 4) % 7

padStart2(n) == (IF n < 10 THEN "0" ELSE "") \o ToString(n)

_startOfDay(d) == d
_addDays(d, n) == d + n
_fmtDate(d) == ToString(getFullYear(d)) \o "-" \o padStart2(getMonth(d) + 1)
                 \o "-" \o padStart2(getDate(d))
_fmtMonthKey(d) == ToString(getFullYear(d)) \o "-" \o padStart2(getMonth(d) + 1)
_fmtWeekKey(first) == _fmtDate(first)

(* --------------------------- small helpers ---------------------------- *)

Range(s, e) == [startMin |-> s, endMin |-> e]
_blankWeekRanges == [d \in Days |-> <<>>]
_blankWeekSlots == [d \in Days |-> [s \in Slots |-> NULL]]

\* Math.round(x) is floor(x + 1/2)
MathRound15(min) == (2 * min + 15) \div 30
_round15(min) == MathRound15(min) * 15
_minsToSlot(min) == Max(0, Min(SLOTS_PER_DAY, MathRound15(min)))

\* undefined is <<>> and a defined value v is <<v>>
Undefined == <<>>
Some(v) == <<v>>
Val(o) == o[1]
\* m[k]
Get(m, k) == IF k \in DOMAIN m THEN Some(m[k]) ELSE Undefined
\* m[k]?.[t]
Get2(m, k, t) == IF k \in DOMAIN m /\ t \in DOMAIN m[k] THEN Some(m[k][t]) ELSE Undefined

\* (w?.[i]||[]): a week that is undefined, or lacks day i, reads as empty
DayOf(w, i) == IF i \in DOMAIN w THEN w[i] ELSE <<>>
DayOfOpt(o, i) == IF o # Undefined THEN DayOf(Val(o), i) ELSE <<>>
_deepCopyWeek(w) ==
  [i \in Days |-> [j \in 1..Len(DayOf(w, i)) |->
      Range(DayOf(w, i)[j].startMin, DayOf(w, i)[j].endMin)]]
copyDay(l) == [j \in 1..Len(l) |-> Range(l[j].startMin, l[j].endMin)]

(* ------------------------- priority ordering -------------------------- *)

\* seqForTask (271-279 and 411-414): the least defined stamp, else 1e9
seqForTask(self, taskKey) ==
  LET wkKey == _fmtWeekKey(self.visibleWeekFirst)
      moKey == _fmtMonthKey(self.visibleWeekFirst)
      w == Get2(self.ORDER.week, wkKey, taskKey)
      m == Get2(self.ORDER.month, moKey, taskKey)
      r == Get(self.ORDER.recurring, taskKey)
      seqs == {o[1] : o \in {w, m, r} \ {Undefined}}
  IN IF seqs = {} THEN NoSeq ELSE CHOOSE x \in seqs : \A y \in seqs : x <= y

\* a sort that is ascending but puts a key before the keys equal to it: equal
\* keys come out in reverse order
RECURSIVE InsertBeforeEquals(_, _, _)
InsertBeforeEquals(sorted, k, f) ==
  IF sorted = <<>> THEN <<k>>
  ELSE IF f[Head(sorted)] < f[k]
  THEN <<Head(sorted)>> \o InsertBeforeEquals(Tail(sorted), k, f)
  ELSE <<k>> \o sorted

\* Array.prototype.sort with (a,b)=>f(a)-f(b): ascending and stable
RECURSIVE InsertStable(_, _, _)
InsertStable(sorted, k, f) ==
  IF sorted = <<>> THEN <<k>>
  ELSE IF f[Head(sorted)] <= f[k] THEN <<Head(sorted)>> \o InsertStable(Tail(sorted), k, f)
  ELSE <<k>> \o sorted

RECURSIVE SortStable(_, _, _)
SortStable(keys, i, f) ==
  IF i = 0 THEN <<>> ELSE InsertStable(SortStable(keys, i - 1, f), keys[i], f)

\* the catalog as it stands, with no sort by stamp
catalogOrder(self) == self.TASKS

orderedTasks(self) ==
  LET f == [k \in {self.TASKS[i] : i \in 1..Len(self.TASKS)} |-> seqForTask(self, k)]
  IN SortStable(self.TASKS, Len(self.TASKS), f)

(* ----------------------- effective-range resolver --------------------- *)

\* the resolver with lines 294 and 295 exchanged: the month override, applied
\* last, would win over the week override
monthOverWeek(self, taskKey) ==
  LET wkKey == _fmtWeekKey(self.visibleWeekFirst)
      moKey == _fmtMonthKey(self.visibleWeekFirst)
      weekOverride == Get2(self.EXCEPTIONS.byWeek, wkKey, taskKey)
      monthOverride == Get2(self.EXCEPTIONS.byMonth, moKey, taskKey)
      exact == Get(self.EXACT, taskKey)
      eff0 == _deepCopyWeek(IF exact # Undefined THEN Val(exact) ELSE _blankWeekRanges)
      eff1 == IF weekOverride # Undefined THEN _deepCopyWeek(Val(weekOverride)) ELSE eff0
      eff2 == IF monthOverride # Undefined THEN _deepCopyWeek(Val(monthOverride)) ELSE eff1
  IN [d \in Days |->
        LET dayOverride == Get2(self.EXCEPTIONS.byDate,
                                _fmtDate(_addDays(self.visibleWeekFirst, d)), taskKey)
        IN IF dayOverride # Undefined THEN copyDay(Val(dayOverride)) ELSE eff2[d]]

_effectiveExactForTask(self, taskKey) ==
  LET wkKey == _fmtWeekKey(self.visibleWeekFirst)
      moKey == _fmtMonthKey(self.visibleWeekFirst)
      weekOverride == Get2(self.EXCEPTIONS.byWeek, wkKey, taskKey)
      monthOverride == Get2(self.EXCEPTIONS.byMonth, moKey, taskKey)
      exact == Get(self.EXACT, taskKey)
      eff0 == _deepCopyWeek(IF exact # Undefined THEN Val(exact) ELSE _blankWeekRanges)
      eff1 == IF monthOverride # Undefined THEN _deepCopyWeek(Val(monthOverride)) ELSE eff0
      eff2 == IF weekOverride # Undefined THEN _deepCopyWeek(Val(weekOverride)) ELSE eff1
      effDay(d) ==
        LET dateKey == _fmtDate(_addDays(self.visibleWeekFirst, d))
            dayOverride == Get2(self.EXCEPTIONS.byDate, dateKey, taskKey)
        IN IF dayOverride # Undefined THEN copyDay(Val(dayOverride)) ELSE eff2[d]
      eff == <<effDay(0), effDay(1), effDay(2), effDay(3), effDay(4), effDay(5), effDay(6)>>
  IN [d \in Days |-> eff[d + 1]]

(* --------------------------- slot grid builder ------------------------ *)

\* the slots of day d that range R of exact[d] writes (lines 309-314)
SameDaySlots(R) ==
  LET a == _round15(R.startMin)
      b == _round15(R.endMin)
  IN IF b > a THEN _minsToSlot(a)..(_minsToSlot(b) - 1)
     ELSE IF b < a THEN _minsToSlot(a)..(_minsToSlot(24 * 60) - 1)
     ELSE {}

\* the slots of day (d+1)%7 that range R of exact[d] writes (lines 315-317)
NextDaySlots(R) ==
  LET a == _round15(R.startMin)
      b == _round15(R.endMin)
  IN IF b < a THEN _minsToSlot(0)..(_minsToSlot(b) - 1) ELSE {}

\* every slot of row d that some iteration of the two loops writes
SlotsWritten(exact, d) ==
  LET own == DayOf(exact, d)
      prev == DayOf(exact, (d + 6) % 7)
  IN UNION ({SameDaySlots(own[j]) : j \in 1..Len(own)}
              \cup {NextDaySlots(prev[j]) : j \in 1..Len(prev)})

\* Every write stores the same key and only into a null cell, so the order of
\* the writes does not matter: a cell ends as cat iff it was null and is written.
_applyRangesToSlots(cat, exact, targetSlots) ==
  [d \in Days |->
      LET written == SlotsWritten(exact, d)
          row == targetSlots[d]
      IN IF written = {} THEN row
         ELSE [s \in Slots |-> IF row[s] = NULL /\ s \in written THEN cat ELSE row[s]]]

\* for(const key of ordered){ if(key===exclude) continue; apply }
RECURSIVE ApplyOrdered(_, _, _, _, _)
ApplyOrdered(self, ordered, i, exclude, slots) ==
  IF i > Len(ordered) THEN slots
  ELSE ApplyOrdered(self, ordered, i + 1, exclude,
         IF ordered[i] = exclude THEN slots
         ELSE _applyRangesToSlots(ordered[i],
                _effectiveExactForTask(self, ordered[i]), slots))

\* no task key is the excluded one
NoExclude == "(none)"

_rebuildSlotsForVisibleWeek(self) ==
  [self EXCEPT !._allSlots =
      ApplyOrdered(self, orderedTasks(self), 1, NoExclude, _blankWeekSlots)]

_buildOccupancyMap(self, excludeTaskKey) ==
  ApplyOrdered(self, orderedTasks(self), 1, excludeTaskKey, _blankWeekSlots)

_countMinutesForVisibleWeek(self, key) ==
  Cardinality({ds \in Days \X Slots : self._allSlots[ds[1]][ds[2]] = key}) * 15

_getTodayTargetInVisibleWeek(self) ==
  LET td == _startOfDay(today)
      visStart == _startOfDay(self.visibleWeekFirst)
      isCurrentWeek == td >= visStart /\ td <= _startOfDay(_addDays(visStart, 6))
  IN IF isCurrentWeek THEN [date |-> td, index |-> getDay(td)]
     ELSE [date |-> visStart, index |-> 0]

(* ----------------------- normalize / clip (save path) ----------------- *)

\* r.startMin|0 and r.endMin|0 (line 351) leave an integer of at most 32 bits as
\* it is, and every integer of this module is one.
\* Lines 349-362 push, for every range r of day d in turn, its same-day part
\* onto norm[d] and, when r wraps midnight, its early part onto norm[(d+1)%7].
\* SameDayPart and NextDayPart are the pieces one r contributes (<<>> if none).
SameDayPart(r) ==
  LET s == r.startMin
      e == r.endMin
  IN IF e > s
     THEN IF _round15(e) > _round15(s) THEN <<Range(_round15(s), _round15(e))>> ELSE <<>>
     ELSE IF e < s
     THEN IF _round15(24 * 60) > _round15(s)
          THEN <<Range(_round15(s), _round15(24 * 60))>> ELSE <<>>
     ELSE <<>>

NextDayPart(r) ==
  LET s == r.startMin
      e == r.endMin
  IN IF e < s /\ _round15(e) > _round15(0) THEN <<Range(_round15(0), _round15(e))>>
     ELSE <<>>

\* the concatenation of part(rs[1]), ..., part(rs[Len(rs)])
RECURSIVE PartsOf(_, _, _)
PartsOf(rs, j, wraps) ==
  IF j > Len(rs) THEN <<>>
  ELSE (IF wraps THEN NextDayPart(rs[j]) ELSE SameDayPart(rs[j])) \o PartsOf(rs, j + 1, wraps)

\* norm after the loops: days are visited 0..6, so the early parts pushed from
\* day d-1 precede day d's own parts, except on day 0 whose early parts come
\* from day 6, visited last
NormWeek(weekRanges) ==
  [d \in Days |->
     LET own == PartsOf(DayOf(weekRanges, d), 1, FALSE)
         spilled == PartsOf(DayOf(weekRanges, (d + 6) % 7), 1, TRUE)
     IN IF d = 0 THEN own \o spilled ELSE spilled \o own]

hadOvernightIn(weekRanges) ==
  \E d \in Days : \E j \in 1..Len(DayOf(weekRanges, d)) :
     DayOf(weekRanges, d)[j].endMin < DayOf(weekRanges, d)[j].startMin

\* the slots s with req[s] true (lines 370-371)
Requested(normDay) ==
  UNION {(_minsToSlot(normDay[j].startMin)..(_minsToSlot(normDay[j].endMin) - 1))
            \cap Slots : j \in 1..Len(normDay)}

\* a clip that takes every slot for free
AnySlot(occDay, taskKey) == Slots

\* the slots s with occ[d][s]===null || occ[d][s]===taskKey
FreeOrOwn(occDay, taskKey) == {s \in Slots : occDay[s] = NULL \/ occDay[s] = taskKey}

\* while(s<SLOTS_PER_DAY && (!req[s] || !(free or own))) s++
SkipBlocked(usable, s) ==
  Least({t \in usable : t >= s} \cup {Max(s, SLOTS_PER_DAY)})

\* while(e<SLOTS_PER_DAY && req[e] && (free or own)) e++
ExtendRun(usable, e) ==
  Least({t \in e..(SLOTS_PER_DAY - 1) : t \notin usable} \cup {Max(e, SLOTS_PER_DAY)})

\* the while loop of lines 372-381; usable holds the slots requested and free or own
RECURSIVE SweepDay(_, _, _)
SweepDay(usable, s0, out) ==
  IF s0 >= SLOTS_PER_DAY THEN out
  ELSE LET s == SkipBlocked(usable, s0)
       IN IF s >= SLOTS_PER_DAY THEN out
          ELSE LET e == ExtendRun(usable, s + 1)
                   startMin == s * 15
                   endMin == e * 15
               IN SweepDay(usable, e,
                     IF endMin > startMin THEN Append(out, Range(startMin, endMin))
                     ELSE out)

\* sort((A,B)=>A.startMin-B.startMin)
RECURSIVE InsertByStart(_, _)
InsertByStart(sorted, r) ==
  IF sorted = <<>> THEN <<r>>
  ELSE IF Head(sorted).startMin <= r.startMin
       THEN <<Head(sorted)>> \o InsertByStart(Tail(sorted), r)
  ELSE <<r>> \o sorted

RECURSIVE SortByStart(_, _)
SortByStart(rs, i) ==
  IF i = 0 THEN <<>> ELSE InsertByStart(SortByStart(rs, i - 1), rs[i])

\* the merge loop of lines 383-391
RECURSIVE MergeRanges(_, _, _)
MergeRanges(merged, rs, j) ==
  IF j > Len(rs) THEN merged
  ELSE IF merged = <<>> THEN MergeRanges(<<rs[j]>>, rs, j + 1)
  ELSE LET last == merged[Len(merged)]
       IN IF rs[j].startMin <= last.endMin
          THEN MergeRanges([merged EXCEPT ![Len(merged)].endMin =
                              Max(last.endMin, rs[j].endMin)], rs, j + 1)
          ELSE MergeRanges(Append(merged, rs[j]), rs, j + 1)

\* if(merged.length>4) merged.length=4
MaxRangesPerDay == 4
\* a truncation from the front: the last four entries would survive
KeepLastFour(merged) ==
  IF Len(merged) > MaxRangesPerDay
  THEN SubSeq(merged, Len(merged) - MaxRangesPerDay + 1, Len(merged)) ELSE merged

CapDay(merged) ==
  IF Len(merged) > MaxRangesPerDay THEN SubSeq(merged, 1, MaxRangesPerDay) ELSE merged

\* the day's normalized ranges as they are, with lines 365-393 left out
Unclipped(normDay, occDay, taskKey) == normDay

ClipDay(normDay, occDay, taskKey) ==
  LET usable == Requested(normDay) \cap FreeOrOwn(occDay, taskKey)
      swept == SweepDay(usable, 0, <<>>)
      sorted == SortByStart(swept, Len(swept))
  IN CapDay(MergeRanges(<<>>, sorted, 1))

_normalizeAndClip(self, scope, taskKey, weekRanges) ==
  LET norm == NormWeek(weekRanges)
      hadOvernight == hadOvernightIn(weekRanges)
      occ == _buildOccupancyMap(self, taskKey)
      clipped == [d \in Days |-> ClipDay(norm[d], occ[d], taskKey)]
      index == _getTodayTargetInVisibleWeek(self).index
      dn == (index + 1) % 7
  IN [week |-> clipped,
      spillNextDay |-> IF scope = "today" /\ hadOvernight THEN clipped[dn] ELSE <<>>]

(* ------------------------------ rendering ----------------------------- *)

\* <<f[lo], f[lo]+f[lo+1], ..., f[lo]+...+f[hi-1]>>: the running sums that the
\* pushes of lines 257, 261 and 267 build, for lo < hi
RECURSIVE RunningSums(_, _, _)
RunningSums(f, lo, hi) ==
  IF hi = lo + 1 THEN <<f[lo]>>
  ELSE LET mid == (lo + hi) \div 2
           L == RunningSums(f, lo, mid)
           R == RunningSums(f, mid, hi)
       IN L \o [j \in 1..Len(R) |-> R[j] + L[Len(L)]]

\* the array [0, sums...] as a function on 0..Len(sums)
FromZero(sums) == [i \in 0..Len(sums) |-> IF i = 0 THEN 0 ELSE sums[i]]

\* a division that leaves the remainders out: every column floor(W/7) wide,
\* every row floor(H/24) high, every quarter a fourth of that
evenGeometry(totalW, totalH) ==
  LET colW == [c \in 0..6 |-> totalW \div 7]
      rowH == [rI \in 0..23 |-> totalH \div 24]
      flat == [i \in 0..(SLOTS_PER_DAY - 1) |-> (totalH \div 24) \div 4]
  IN [totalW |-> totalW, totalH |-> totalH,
      colW |-> colW, colX |-> FromZero(RunningSums(colW, 0, 7)),
      rowH |-> rowH, rowY |-> FromZero(RunningSums(rowH, 0, 24)),
      slotY |-> FromZero(RunningSums(flat, 0, SLOTS_PER_DAY))]

_computeGeometry(totalW, totalH) ==
  LET colWBase == totalW \div 7
      extraW == totalW - colWBase * 7
      colW == [c \in 0..6 |-> colWBase + (IF c < extraW THEN 1 ELSE 0)]
      rowHBase == totalH \div 24
      extraH == totalH - rowHBase * 24
      rowH == [rI \in 0..23 |-> rowHBase + (IF rI < extraH THEN 1 ELSE 0)]
      \* parts[(start+k)%4]+=1 for k<extra, start=hr%4
      slotHeightsPerHour == [hr \in 0..23 |->
         LET h == rowH[hr]
             base == h \div 4
             extra == h - base * 4
         IN [q \in 0..3 |-> base + (IF (q - (hr % 4) + 4) % 4 < extra THEN 1 ELSE 0)]]
      flat == [i \in 0..(SLOTS_PER_DAY - 1) |-> slotHeightsPerHour[i \div 4][i % 4]]
  IN [totalW |-> totalW, totalH |-> totalH,
      colW |-> colW, colX |-> FromZero(RunningSums(colW, 0, 7)),
      rowH |-> rowH, rowY |-> FromZero(RunningSums(rowH, 0, 24)),
      slotY |-> FromZero(RunningSums(flat, 0, SLOTS_PER_DAY))]

\* const size = this.measureGrid()
measureGrid == size

Call(self, name) == [self EXCEPT !.calls = Append(@, name)]

\* a render pass that blanks what was painted when the container has no size
renderOrBlank(self, forceGeom) ==
  LET s1 == Call(Call(Call(self, "onRenderTitle"), "onRenderLabels"), "onRenderHours")
      sz == measureGrid
  IN IF sz = Undefined \/ Val(sz).width = 0 \/ Val(sz).height = 0
     THEN [s1 EXCEPT !._geom = Undefined, !._allSlots = _blankWeekSlots]
     ELSE LET s2 == Call([s1 EXCEPT !._geom =
                             Some(_computeGeometry(Val(sz).width, Val(sz).height))],
                         "onRenderMask")
          IN Call(Call(_rebuildSlotsForVisibleWeek(s2), "onRenderBlocks"),
                  "onRenderNowHint")

_render(self, forceGeom) ==
  LET s1 == Call(Call(Call(self, "onRenderTitle"), "onRenderLabels"), "onRenderHours")
      sz == measureGrid
  IN IF sz = Undefined \/ Val(sz).width = 0 \/ Val(sz).height = 0 THEN s1
     ELSE LET recompute == \/ forceGeom
                           \/ s1._geom = Undefined
                           \/ Val(s1._geom).totalW # Val(sz).width
                           \/ Val(s1._geom).totalH # Val(sz).height
              s2 == IF recompute
                    THEN Call([s1 EXCEPT !._geom =
                                  Some(_computeGeometry(Val(sz).width, Val(sz).height))],
                              "onRenderMask")
                    ELSE s1
              s3 == Call(_rebuildSlotsForVisibleWeek(s2), "onRenderBlocks")
          IN Call(s3, "onRenderNowHint")

(* ------------------------------ public API ---------------------------- *)

\* this.TASKS = tasks.slice(); the stores are kept as they are
replaceCatalog(self, tasks) == [self EXCEPT !.TASKS = tasks]

\* a navigation that starts the week shown without its week overrides
gotoWeekFresh(self, delta) ==
  LET off == self.weekOffset + delta
      first == today - getDay(today) + off * 7
  IN _render([self EXCEPT !.weekOffset = off, !.visibleWeekFirst = first,
                          !.EXCEPTIONS.byWeek = EmptyMap], FALSE)

gotoWeek(self, delta) ==
  LET off == self.weekOffset + delta
      first == today - getDay(today) + off * 7
  IN _render([self EXCEPT !.weekOffset = off, !.visibleWeekFirst = first], FALSE)

rebuild(self) == _render(self, TRUE)

getDurations(self) ==
  [k \in {self.TASKS[i] : i \in 1..Len(self.TASKS)} |->
      _countMinutesForVisibleWeek(self, k)]

\* new Intl.DateTimeFormat(undefined,{month:'short'}).format(d), in an English locale
monthShort(d) ==
  <<"Jan", "Feb", "Mar", "Apr", "May", "Jun",
    "Jul", "Aug", "Sep", "Oct", "Nov", "Dec">>[getMonth(d) + 1]

\* the separator of the title is an en dash (U+2013), written " - " here: a
\* TLA+ string holds ASCII only
getWeekTitle(self) ==
  LET first == self.visibleWeekFirst
      last == _addDays(first, 6)
  IN IF getFullYear(first) = getFullYear(last)
     THEN IF getMonth(first) = getMonth(last)
          THEN monthShort(first) \o " " \o ToString(getDate(first)) \o " - "
                 \o ToString(getDate(last)) \o ", " \o ToString(getFullYear(first))
          ELSE monthShort(first) \o " " \o ToString(getDate(first)) \o " - "
                 \o monthShort(last) \o " " \o ToString(getDate(last))
                 \o ", " \o ToString(getFullYear(first))
     ELSE monthShort(first) \o " " \o ToString(getDate(first)) \o ", "
            \o ToString(getFullYear(first)) \o " - " \o monthShort(last) \o " "
            \o ToString(getDate(last)) \o ", " \o ToString(getFullYear(last))

\* an entry that exists is truthy, an empty list included
activeScopeForTask(self, taskKey) ==
  LET wkKey == _fmtWeekKey(self.visibleWeekFirst)
      moKey == _fmtMonthKey(self.visibleWeekFirst)
      todayKey == _fmtDate(_startOfDay(today))
  IN IF Get2(self.EXCEPTIONS.byDate, todayKey, taskKey) # Undefined THEN "today"
     ELSE IF Get2(self.EXCEPTIONS.byWeek, wkKey, taskKey) # Undefined THEN "week"
     ELSE IF Get2(self.EXCEPTIONS.byMonth, moKey, taskKey) # Undefined THEN "month"
     ELSE "recurring"

getExactForScope(self, taskKey, scope) ==
  LET exact == Get(self.EXACT, taskKey)
      exactOrBlank == IF exact # Undefined THEN Val(exact) ELSE _blankWeekRanges
      wkSet == Get2(self.EXCEPTIONS.byWeek, _fmtWeekKey(self.visibleWeekFirst), taskKey)
      moSet == Get2(self.EXCEPTIONS.byMonth, _fmtMonthKey(self.visibleWeekFirst), taskKey)
      index == _getTodayTargetInVisibleWeek(self).index
      dateKey == _fmtDate(_addDays(self.visibleWeekFirst, index))
      set == Get2(self.EXCEPTIONS.byDate, dateKey, taskKey)
  IN IF scope = "recurring" THEN _deepCopyWeek(exactOrBlank)
     ELSE IF scope = "week"
     THEN _deepCopyWeek(IF wkSet # Undefined THEN Val(wkSet) ELSE exactOrBlank)
     ELSE IF scope = "month"
     THEN _deepCopyWeek(IF moSet # Undefined THEN Val(moSet) ELSE exactOrBlank)
     ELSE [_blankWeekRanges EXCEPT ![index] =
             IF set # Undefined THEN copyDay(Val(set))
             ELSE copyDay(_effectiveExactForTask(self, taskKey)[index])]

\* the test of lines 170, 176 and 182 answering yes whatever is stored: every
\* save would stamp anew
NeverStamped(o) == TRUE

\* !m[k]: undefined or 0
Unstamped(o) == o = Undefined \/ Val(o) = 0

\* m[k] = m[k] || {}
OrEmpty(m, k) == IF k \in DOMAIN m THEN m[k] ELSE EmptyMap

\* lines 189-191 alone: write the day's ranges when there are any, and keep
\* whatever is stored otherwise
WriteOnly(byDate, dateKey, taskKey, ranges) ==
  IF Len(ranges) > 0
  THEN Put(byDate, dateKey, Put(OrEmpty(byDate, dateKey), taskKey, ranges))
  ELSE byDate

\* lines 189-195 (and 197-203): write the day's ranges, or delete the entry
WriteOrDelete(byDate, dateKey, taskKey, ranges) ==
  IF Len(ranges) > 0
  THEN Put(byDate, dateKey, Put(OrEmpty(byDate, dateKey), taskKey, ranges))
  ELSE IF Get2(byDate, dateKey, taskKey) # Undefined
  THEN LET rest == Del(byDate[dateKey], taskKey)
       IN IF DOMAIN rest = {} THEN Del(byDate, dateKey) ELSE Put(byDate, dateKey, rest)
  ELSE byDate

\* lines 168-204: the clipped ranges nc = {week, spillNextDay} are stored at the scope
storeClipped(s1, taskKey, scope, nc) ==
  LET wkKey == _fmtWeekKey(s1.visibleWeekFirst)
      moKey == _fmtMonthKey(s1.visibleWeekFirst)
  IN IF scope = "recurring"
     THEN IF Unstamped(Get(s1.ORDER.recurring, taskKey))
          THEN [s1 EXCEPT !.EXACT = Put(@, taskKey, nc.week),
                          !.ORDER.recurring = Put(@, taskKey, s1._saveSeq),
                          !._saveSeq = @ + 1]
          ELSE [s1 EXCEPT !.EXACT = Put(@, taskKey, nc.week)]
     ELSE IF scope = "week"
     THEN IF Unstamped(Get2(s1.ORDER.week, wkKey, taskKey))
          THEN [s1 EXCEPT
                  !.EXCEPTIONS.byWeek = Put(@, wkKey, Put(OrEmpty(@, wkKey), taskKey, nc.week)),
                  !.ORDER.week = Put(@, wkKey, Put(OrEmpty(@, wkKey), taskKey, s1._saveSeq)),
                  !._saveSeq = @ + 1]
          ELSE [s1 EXCEPT
                  !.EXCEPTIONS.byWeek = Put(@, wkKey, Put(OrEmpty(@, wkKey), taskKey, nc.week))]
     ELSE IF scope = "month"
     THEN IF Unstamped(Get2(s1.ORDER.month, moKey, taskKey))
          THEN [s1 EXCEPT
                  !.EXCEPTIONS.byMonth = Put(@, moKey, Put(OrEmpty(@, moKey), taskKey, nc.week)),
                  !.ORDER.month = Put(@, moKey, Put(OrEmpty(@, moKey), taskKey, s1._saveSeq)),
                  !._saveSeq = @ + 1]
          ELSE [s1 EXCEPT
                  !.EXCEPTIONS.byMonth = Put(@, moKey, Put(OrEmpty(@, moKey), taskKey, nc.week))]
     ELSE LET tgt == _getTodayTargetInVisibleWeek(s1)
          IN [s1 EXCEPT !.EXCEPTIONS.byDate =
                WriteOrDelete(WriteOrDelete(@, _fmtDate(tgt.date), taskKey, nc.week[tgt.index]),
                              _fmtDate(_addDays(tgt.date, 1)), taskKey, nc.spillNextDay)]

\* lines 163-166: the scope is remembered and the ranges are normalized and clipped
remembered(self, taskKey, scope) == [self EXCEPT !.LAST_SCOPE = Put(@, taskKey, scope)]

\* saveRanges up to, not including, its final this._render()
saveStore(self, taskKey, scope, weekRanges) ==
  storeClipped(remembered(self, taskKey, scope), taskKey, scope,
               _normalizeAndClip(remembered(self, taskKey, scope), scope, taskKey, weekRanges))

saveRanges(self, taskKey, scope, weekRanges) ==
  _render(saveStore(self, taskKey, scope, weekRanges), FALSE)


\* JSON.parse(JSON.stringify(x)) on the stores: a structural copy, level by level
jsonDays(m) == [k \in DOMAIN m |-> [t \in DOMAIN m[k] |-> copyDay(m[k][t])]]
jsonWeek(w) == [i \in DOMAIN w |-> copyDay(w[i])]
jsonWeeks(m) == [k \in DOMAIN m |-> [t \in DOMAIN m[k] |-> jsonWeek(m[k][t])]]
jsonExceptions(e) ==
  [byDate |-> jsonDays(e.byDate), byWeek |-> jsonWeeks(e.byWeek),
   byMonth |-> jsonWeeks(e.byMonth)]
jsonStamps(m) == [k \in DOMAIN m |-> [t \in DOMAIN m[k] |-> m[k][t]]]
jsonOrder(o) ==
  [recurring |-> [t \in DOMAIN o.recurring |-> o.recurring[t]],
   week |-> jsonStamps(o.week), month |-> jsonStamps(o.month)]
jsonScopes(m) == [t \in DOMAIN m |-> m[t]]

_deepCopyExactMap(m) == [k \in DOMAIN m |-> _deepCopyWeek(m[k])]
\* the map stored as it is given, its weeks not rebuilt
keepsShape(m) == m
_ensureExactShape(m) == [k \in DOMAIN m |-> _deepCopyWeek(m[k])]

getState(self) ==
  [EXACT |-> _deepCopyExactMap(self.EXACT),
   EXCEPTIONS |-> jsonExceptions(self.EXCEPTIONS),
   ORDER |-> jsonOrder(self.ORDER),
   LAST_SCOPE |-> jsonScopes(self.LAST_SCOPE)]

\* each of the four parts is an option: absent (Undefined) or given
setState(self, st) ==
  LET s1 == IF st.EXACT # Undefined
            THEN [self EXCEPT !.EXACT = _ensureExactShape(Val(st.EXACT))] ELSE self
      s2 == IF st.EXCEPTIONS # Undefined
            THEN [s1 EXCEPT !.EXCEPTIONS = jsonExceptions(Val(st.EXCEPTIONS))] ELSE s1
      s3 == IF st.ORDER # Undefined
            THEN [s2 EXCEPT !.ORDER = jsonOrder(Val(st.ORDER))] ELSE s2
      s4 == IF st.LAST_SCOPE # Undefined
            THEN [s3 EXCEPT !.LAST_SCOPE = jsonScopes(Val(st.LAST_SCOPE))] ELSE s3
  IN _render(s4, TRUE)

\* The four parts of a state object.  Each part of the object that getState
\* returns is built anew from the engine's part, by _deepCopyExactMap (maps,
\* weeks, day lists and ranges all created by the copy) or by
\* JSON.parse(JSON.stringify(.)); each part that setState stores is built anew
\* from the caller's part, by _ensureExactShape or by the JSON round trip.
\* "copy": no object is common to the two sides; "same": the object itself.
Parts == {"EXACT", "EXCEPTIONS", "ORDER", "LAST_SCOPE"}
\* an export that hands out the engine's own objects
exportsItself == [p \in Parts |-> "same"]
getStateMakes == [p \in Parts |-> "copy"]
setStateMakes == [p \in Parts |-> "copy"]
\* the parts through which a change made on one side shows on the other
SharedParts(makes, st) == {p \in Parts : makes[p] = "same" /\ st[p] # Undefined}

(* ---------------------------- state machine --------------------------- *)

\* opts.tasks
Catalog == <<"work", "commute">>
Keys == {Catalog[i] : i \in 1..Len(Catalog)}

\* the days the clock may show: Sunday 2026-11-29 .. Saturday 2026-12-05
TodayChoices == {d \in 0..364 : _fmtDate(d - getDay(d)) = "2026-11-29"}

\* what the geometry probe may report: nothing, no width, no height, a measured size
Measured == Some([width |-> 100, height |-> 48])
Sizes == {Undefined, Some([width |-> 0, height |-> 48]),
          Some([width |-> 100, height |-> 0]), Measured}

this ==
  [TASKS |-> TASKS, EXACT |-> EXACT, EXCEPTIONS |-> EXCEPTIONS,
   LAST_SCOPE |-> LAST_SCOPE, ORDER |-> ORDER, _saveSeq |-> _saveSeq,
   weekOffset |-> weekOffset, visibleWeekFirst |-> visibleWeekFirst,
   _geom |-> _geom, _allSlots |-> _allSlots, calls |-> calls]

\* the engine at the start of an API call: no callback invoked yet
Entered == [this EXCEPT !.calls = <<>>]

Become(result) ==
  \E r \in {result} :
  /\ TASKS' = r.TASKS
  /\ EXACT' = r.EXACT
  /\ EXCEPTIONS' = r.EXCEPTIONS
  /\ LAST_SCOPE' = r.LAST_SCOPE
  /\ ORDER' = r.ORDER
  /\ _saveSeq' = r._saveSeq
  /\ weekOffset' = r.weekOffset
  /\ visibleWeekFirst' = r.visibleWeekFirst
  /\ _geom' = r._geom
  /\ _allSlots' = r._allSlots
  /\ calls' = r.calls

\* the record of an API call
CallOf(name, taskKey, scope, weekRanges) ==
  [name |-> name, taskKey |-> taskKey, scope |-> scope, weekRanges |-> weekRanges]
Plain(name) == CallOf(name, "", "", _blankWeekRanges)

\* one API call: the engine becomes result, and the history is kept
Do(call, result, maxOps) ==
  /\ opCount < maxOps
  /\ Become(result)
  /\ opCount' = opCount + 1
  /\ lastCall' = call
  /\ before' = [self |-> this, lastCall |-> lastCall]
  /\ returned' = Undefined
  /\ UNCHANGED <<today, size, held>>

\* the constructor, lines 7-68
Constructed(tasks) ==
  gotoWeek([TASKS |-> tasks,
            EXACT |-> [k \in {tasks[i] : i \in 1..Len(tasks)} |-> _blankWeekRanges],
            EXCEPTIONS |-> [byDate |-> EmptyMap, byWeek |-> EmptyMap, byMonth |-> EmptyMap],
            LAST_SCOPE |-> EmptyMap,
            ORDER |-> [recurring |-> EmptyMap, week |-> EmptyMap, month |-> EmptyMap],
            _saveSeq |-> 1,
            weekOffset |-> 0,
            visibleWeekFirst |-> 0,
            _geom |-> Undefined,
            _allSlots |-> _blankWeekSlots,
            calls |-> <<>>], 0)

\* the state after construction, for the given clock readings and probe answers
InitOf(todays, sizes) ==
  /\ today \in todays
  /\ size \in sizes
  /\ opCount = 0
  /\ lastCall = Plain("constructor")
  /\ \E r \in {Constructed(Catalog)} :
       /\ TASKS = r.TASKS
       /\ EXACT = r.EXACT
       /\ EXCEPTIONS = r.EXCEPTIONS
       /\ LAST_SCOPE = r.LAST_SCOPE
       /\ ORDER = r.ORDER
       /\ _saveSeq = r._saveSeq
       /\ weekOffset = r.weekOffset
       /\ visibleWeekFirst = r.visibleWeekFirst
       /\ _geom = r._geom
       /\ _allSlots = r._allSlots
       /\ calls = r.calls
       /\ before = [self |-> r, lastCall |-> Plain("none")]
  /\ returned = Undefined
  /\ held = [object |-> Undefined, shares |-> {}]

Abs(n) == IF n < 0 THEN 0 - n ELSE n

\* core.gotoWeek(delta)
GotoWeekOf(deltas, maxOps) ==
  \E delta \in deltas :
    /\ Abs(weekOffset + delta) <= MaxWeekOffset
    /\ Do(Plain("gotoWeek"), gotoWeek(Entered, delta), maxOps)

\* core.rebuild()
RebuildOf(maxOps) == Do(Plain("rebuild"), rebuild(Entered), maxOps)

\* core.saveRanges(taskKey, scope, weekRanges)
SaveRangesOf(keys, scopes, submissions, maxOps) ==
  \E taskKey \in keys, scope \in scopes, weekRanges \in submissions :
    Do(CallOf("saveRanges", taskKey, scope, weekRanges),
       saveRanges(Entered, taskKey, scope, weekRanges), maxOps)

\* core.saveRanges(taskKey, scope, core.getExactForScope(taskKey, scope)): the
\* editor loads a task's ranges and saves them back untouched
ResaveOf(keys, scopes, maxOps) ==
  \E taskKey \in keys, scope \in scopes :
    \E weekRanges \in {getExactForScope(Entered, taskKey, scope)} :
      Do(CallOf("saveRanges", taskKey, scope, weekRanges),
         saveRanges(Entered, taskKey, scope, weekRanges), maxOps)

\* core.setState(st): the caller keeps st
SetStateOf(imports, maxOps) ==
  \E st \in imports :
    /\ opCount < maxOps
    /\ Become(setState(Entered, st))
    /\ opCount' = opCount + 1
    /\ lastCall' = Plain("setState")
    /\ before' = [self |-> this, lastCall |-> lastCall]
    /\ returned' = Undefined
    /\ held' = [object |-> Some(st), shares |-> SharedParts(setStateMakes, st)]
    /\ UNCHANGED <<today, size>>

\* core.replaceCatalog(tasks)
ReplaceCatalogOf(catalogs, maxOps) ==
  \E tasks \in catalogs \ {TASKS} :
    Do(Plain("replaceCatalog"), replaceCatalog(Entered, tasks), maxOps)

\* a call that changes no field and invokes no callback, returning value
AskOf(call, value, maxOps) ==
  /\ opCount < maxOps
  /\ Become(Entered)
  /\ opCount' = opCount + 1
  /\ lastCall' = call
  /\ before' = [self |-> this, lastCall |-> lastCall]
  /\ returned' = Some(value)
  /\ UNCHANGED <<today, size, held>>

\* core.getDurations()
GetDurationsOf(maxOps) == AskOf(Plain("getDurations"), getDurations(Entered), maxOps)

\* core.getWeekTitle()
GetWeekTitleOf(maxOps) == AskOf(Plain("getWeekTitle"), getWeekTitle(Entered), maxOps)

\* core.activeScopeForTask(taskKey)
ActiveScopeForTaskOf(keys, maxOps) ==
  \E taskKey \in keys :
    AskOf(CallOf("activeScopeForTask", taskKey, "", _blankWeekRanges),
          activeScopeForTask(Entered, taskKey), maxOps)

\* core.getExactForScope(taskKey, scope)
GetExactForScopeOf(keys, scopes, maxOps) ==
  \E taskKey \in keys, scope \in scopes :
    AskOf(CallOf("getExactForScope", taskKey, scope, _blankWeekRanges),
          getExactForScope(Entered, taskKey, scope), maxOps)

\* the object {EXACT, EXCEPTIONS, ORDER, LAST_SCOPE} as setState destructures it
AllGiven(st) == [p \in Parts |-> Some(st[p])]

\* core.getState(): the caller keeps the object returned
GetStateOf(maxOps) ==
  \E st \in {AllGiven(getState(Entered))} :
    /\ opCount < maxOps
    /\ Become(Entered)
    /\ opCount' = opCount + 1
    /\ lastCall' = Plain("getState")
    /\ before' = [self |-> this, lastCall |-> lastCall]
    /\ returned' = Some(st)
    /\ held' = [object |-> Some(st), shares |-> SharedParts(getStateMakes, st)]
    /\ UNCHANGED <<today, size>>

\* core.setState(st) for the object st the caller holds
SetHeldOf(maxOps) ==
  /\ held.object # Undefined
  /\ \E st \in {Val(held.object)} :
       /\ opCount < maxOps
       /\ Become(setState(Entered, st))
       /\ opCount' = opCount + 1
       /\ lastCall' = Plain("setState")
       /\ before' = [self |-> this, lastCall |-> lastCall]
       /\ returned' = Undefined
       /\ held' = [object |-> Some(st), shares |-> SharedParts(setStateMakes, st)]
       /\ UNCHANGED <<today, size>>

\* what a part is once the caller has deleted every key it can
Emptied(p) ==
  IF p = "EXCEPTIONS" THEN [byDate |-> EmptyMap, byWeek |-> EmptyMap, byMonth |-> EmptyMap]
  ELSE IF p = "ORDER" THEN [recurring |-> EmptyMap, week |-> EmptyMap, month |-> EmptyMap]
  ELSE EmptyMap

\* the caller empties part p of the object it holds; the engine's part is
\* emptied with it exactly when the two are the same object
EditHeldOf(maxOps) ==
  /\ held.object # Undefined
  /\ \E p \in Parts :
       /\ opCount < maxOps
       /\ Val(held.object)[p] # Undefined
       /\ Val(Val(held.object)[p]) # Emptied(p)
       /\ held' = [held EXCEPT !.object = Some([Val(held.object) EXCEPT ![p] = Some(Emptied(p))])]
       /\ Become(IF p \in held.shares THEN [this EXCEPT ![p] = Emptied(p)] ELSE this)
       /\ opCount' = opCount + 1
       /\ lastCall' = CallOf("edit", "", p, _blankWeekRanges)
       /\ before' = [self |-> this, lastCall |-> lastCall]
       /\ returned' = Undefined
       /\ UNCHANGED <<today, size>>

\* the container is laid out, resized or hidden: the probe's answer changes
ResizeOf(sizes) ==
  /\ size' \in sizes \ {size}
  /\ lastCall' = Plain("resize")
  /\ before' = [self |-> this, lastCall |-> lastCall]
  /\ UNCHANGED <<TASKS, EXACT, EXCEPTIONS, LAST_SCOPE, ORDER, _saveSeq, weekOffset,
                 visibleWeekFirst, _geom, _allSlots, calls, today, opCount,
                 returned, held>>

(* ------------------------------ inputs -------------------------------- *)

\* a submission with one day filled in
OneDay(d, l) == [x \in {d} |-> l]

Overnight == <<Range(1380, 60)>>
Early == <<Range(0, 60)>>
SixRuns == <<Range(600, 615), Range(630, 645), Range(660, 675),
             Range(690, 705), Range(720, 735), Range(750, 765)>>

\* the resolved "today" index of the visible week
TodayIndex == _getTodayTargetInVisibleWeek(this).index

Wednesday == CHOOSE d \in TodayChoices : getDay(d) = 3

\* what saving Overnight on every day stores for a task
Nightly == [d \in Days |-> <<Range(0, 60), Range(1380, 1440)>>]

\* persisted stores an application may hand to setState.
\* Shared: both tasks hold the Nightly template, commute stamped before work.
Shared ==
  [EXACT |-> Some([k \in Keys |-> Nightly]),
   EXCEPTIONS |-> Some([byDate |-> EmptyMap, byWeek |-> EmptyMap, byMonth |-> EmptyMap]),
   ORDER |-> Some([recurring |-> [k \in Keys |-> IF k = "commute" THEN 1 ELSE 2],
                   week |-> EmptyMap, month |-> EmptyMap]),
   LAST_SCOPE |-> Undefined]

\* Layers: work alone, with a template, a month override and a week override
\* (late evening) for the current week and a date exception on Wednesday
\* 2026-12-02; the state that work reaches by saving at recurring, month, week
\* and today scope in turn
Layers ==
  [EXACT |-> Some([k \in Keys |-> IF k = "work" THEN Nightly ELSE _blankWeekRanges]),
   EXCEPTIONS |-> Some(
     [byDate |-> [k \in {"2026-12-02"} |-> [t \in {"work"} |-> <<Range(600, 660)>>]],
      byWeek |-> [k \in {"2026-11-29"} |->
                    [t \in {"work"} |-> [d \in Days |-> <<Range(1380, 1440)>>]]],
      byMonth |-> [k \in {"2026-11"} |->
                    [t \in {"work"} |-> [d \in Days |-> <<Range(720, 780)>>]]]]),
   ORDER |-> Some([recurring |-> [t \in {"work"} |-> 1],
                   week |-> [k \in {"2026-11-29"} |-> [t \in {"work"} |-> 3]],
                   month |-> [k \in {"2026-11"} |-> [t \in {"work"} |-> 2]]]),
   LAST_SCOPE |-> Some([t \in {"work"} |-> "today"])]

(* Spec: the whole API on both tasks, today a Wednesday, every render completing. *)
Submissions == {OneDay(3, l) : l \in {<<>>, Overnight}}
Init == InitOf({Wednesday}, {Measured})
GotoWeek == GotoWeekOf({-1, 1}, MaxOps)
Rebuild == RebuildOf(MaxOps)
SaveRanges == SaveRangesOf(Keys, Scopes, Submissions, MaxOps)
SetState == SetStateOf({Shared, Layers}, MaxOps)
Next == GotoWeek \/ Rebuild \/ SaveRanges \/ SetState
Spec == Init /\ [][Next]_vars

(* SpecDisplace: from the fresh engine, each task saves an early or an
   overnight range on Wednesday, as its template or for today. *)
MaxSaves == 4
InitDisplace == InitOf({Wednesday}, {Measured})
SaveEither ==
  SaveRangesOf(Keys, {"recurring", "today"}, {OneDay(3, Early), OneDay(3, Overnight)}, MaxSaves)
NextDisplace == SaveEither
SpecDisplace == InitDisplace /\ [][NextDisplace]_vars

(* SpecResave: each task saves an overnight range on Wednesday at any scope, in
   any of three weeks, and the editor saves back what getExactForScope returns. *)
MaxResaveOps == 3
InitResave == InitOf({Wednesday}, {Measured})
SaveOvernight == SaveRangesOf(Keys, Scopes, {OneDay(3, Overnight)}, MaxResaveOps)
Resave == ResaveOf(Keys, Scopes, MaxResaveOps)
TurnPage == GotoWeekOf({-1, 1}, MaxResaveOps)
NextResave == SaveOvernight \/ Resave \/ TurnPage
SpecResave == InitResave /\ [][NextResave]_vars

(* SpecToday: the clock shows any day of the week; a task saves an overnight
   range on the resolved today, or an early range on Sunday, at today or week
   scope; the application may first restore a store in which commute has the
   early hour of the following Sunday, 2026-12-06. *)
MaxTodayOps == 2
NextSunday ==
  [EXACT |-> Undefined,
   EXCEPTIONS |-> Some(
     [byDate |-> EmptyMap,
      byWeek |-> [k \in {"2026-12-06"} |->
                    [t \in {"commute"} |-> [d \in Days |-> IF d = 0 THEN Early ELSE <<>>]]],
      byMonth |-> EmptyMap]),
   ORDER |-> Some([recurring |-> EmptyMap,
                   week |-> [k \in {"2026-12-06"} |-> [t \in {"commute"} |-> 1]],
                   month |-> EmptyMap]),
   LAST_SCOPE |-> Undefined]
InitToday == InitOf(TodayChoices, {Measured})
SaveAround ==
  SaveRangesOf(Keys, {"today", "week"},
               {OneDay(TodayIndex, Overnight), OneDay(0, Early)}, MaxTodayOps)
Restore == SetStateOf({NextSunday}, MaxTodayOps)
NextToday == SaveAround \/ Restore
SpecToday == InitToday /\ [][NextToday]_vars

(* SpecClip: from the fresh engine, saves of ranges with arbitrary integer
   endpoints at every scope, and week navigation. *)
MaxClipOps == 2
\* out of the day on both sides, overlapping, touching, empty, reversed order
Messy == <<Range(1400, 1500), Range(100, 130), Range(-20, 50), Range(122, 200),
           Range(203, 300), Range(500, 500), Range(307, 302)>>
AllDay == <<Range(0, 1440)>>
ClipSubmissions == {OneDay(3, Messy), OneDay(3, SixRuns), OneDay(3, AllDay)}
InitClip == InitOf({Wednesday}, {Measured})
SaveAny == SaveRangesOf(Keys, Scopes, ClipSubmissions, MaxClipOps)
Browse == GotoWeekOf({-1, 1}, MaxClipOps)
NextClip == SaveAny \/ Browse
SpecClip == InitClip /\ [][NextClip]_vars

(* SpecQuery: the application restores a store, turns pages, repaints and
   asks the engine for what it shows. *)
MaxQueryOps == 2
SpecQuery ==
  /\ InitOf({Wednesday}, {Measured})
  /\ [][\/ SetStateOf({Shared, Layers}, MaxQueryOps)
        \/ GotoWeekOf({-1, 1}, MaxQueryOps)
        \/ RebuildOf(MaxQueryOps)
        \/ GetDurationsOf(MaxQueryOps)
        \/ GetWeekTitleOf(MaxQueryOps)
        \/ ActiveScopeForTaskOf(Keys, MaxQueryOps)
        \/ GetExactForScopeOf(Keys, Scopes, MaxQueryOps)
        \/ GetStateOf(MaxQueryOps)]_vars

(* SpecProbe: the container may be unmeasurable at construction and at any
   later time; the application saves, restores, turns pages and repaints. *)
MaxProbeOps == 2
SpecProbe ==
  /\ InitOf({Wednesday}, Sizes)
  /\ [][\/ ResizeOf(Sizes)
        \/ GotoWeekOf({-1, 1}, MaxProbeOps)
        \/ RebuildOf(MaxProbeOps)
        \/ SaveRangesOf(Keys, {"recurring", "week"}, {OneDay(3, Early)}, MaxProbeOps)
        \/ SetStateOf({Layers}, MaxProbeOps)]_vars

(* SpecExport: the application restores a store, saves, exports the state,
   changes the object it holds and imports it again. *)
MaxExportOps == 3
SpecExport ==
  /\ InitOf({Wednesday}, {Measured})
  /\ [][\/ SetStateOf({Shared, Layers}, MaxExportOps)
        \/ SaveRangesOf(Keys, {"recurring", "today"}, {OneDay(3, Overnight)}, MaxExportOps)
        \/ GetStateOf(MaxExportOps)
        \/ SetHeldOf(MaxExportOps)
        \/ EditHeldOf(MaxExportOps)]_vars

(* SpecCatalog: the application replaces the catalog by one with a new task,
   restores stores whose template names one task only or gives Wednesday
   alone, saves and repaints. *)
MaxCatalogOps == 3
WithSleep == <<"work", "sleep">>
WorkOnly ==
  [EXACT |-> Some([t \in {"work"} |-> OneDay(3, Early)]),
   EXCEPTIONS |-> Undefined, ORDER |-> Undefined, LAST_SCOPE |-> Undefined]
SpecCatalog ==
  /\ InitOf({Wednesday}, {Measured})
  /\ [][\/ ReplaceCatalogOf({Catalog, WithSleep}, MaxCatalogOps)
        \/ SetStateOf({WorkOnly, Shared}, MaxCatalogOps)
        \/ SaveRangesOf({TASKS[i] : i \in 1..Len(TASKS)}, {"recurring", "week"},
                        {OneDay(3, Overnight)}, MaxCatalogOps)
        \/ RebuildOf(MaxCatalogOps)]_vars

(* SpecGeometry: the container has any measured size from 1x1 up to
   MaxWidth x MaxHeight when the engine is constructed, and the application
   repaints. *)
MaxWidth == 15
MaxHeight == 100
MaxGeometryOps == 1
MeasuredSizes ==
  {Some([width |-> W, height |-> H]) : W \in 1..MaxWidth, H \in 1..MaxHeight}
SpecGeometry ==
  /\ InitOf({Wednesday}, MeasuredSizes)
  /\ [][RebuildOf(MaxGeometryOps)]_vars

(* SpecRequest: from the fresh engine, each task saves at recurring, week or
   month scope a Wednesday list with unaligned, overlapping, out-of-day and
   empty ranges, an overnight range on Wednesday, an unaligned overnight range
   on Saturday (wrapping into Sunday), or six separate quarter hours. *)
MaxRequestOps == 2
SpecRequest ==
  /\ InitOf({Wednesday}, {Measured})
  /\ [][SaveRangesOf(Keys, {"recurring", "week", "month"},
                     {OneDay(3, <<Range(1400, 1500), Range(100, 130), Range(-20, 50),
                                  Range(122, 200), Range(203, 300), Range(500, 500)>>),
                      OneDay(3, Overnight),
                      OneDay(6, <<Range(1373, 52)>>),
                      OneDay(3, SixRuns)}, MaxRequestOps)]_vars

(* SpecReclaim: from the fresh engine, each task saves the early hour of
   Wednesday for the visible week or as its template, and pages are turned. *)
MaxReclaimOps == 5
SpecReclaim ==
  /\ InitOf({Wednesday}, {Measured})
  /\ [][\/ SaveRangesOf(Keys, {"week", "recurring"}, {OneDay(3, Early)}, MaxReclaimOps)
        \/ GotoWeekOf({-1, 1}, MaxReclaimOps)]_vars

(* SpecRound: from the fresh engine, each task saves for the visible week or
   for today a Wednesday range a few minutes long whose endpoints round to
   one mark: forwards, backwards, early in the day, at its end, or empty. *)
MaxRoundOps == 2
SpecRound ==
  /\ InitOf({Wednesday}, {Measured})
  /\ [][SaveRangesOf(Keys, {"week", "today"},
                     {OneDay(3, <<Range(5, 7)>>), OneDay(3, <<Range(7, 5)>>),
                      OneDay(3, <<Range(1436, 1434)>>), OneDay(3, <<Range(500, 500)>>)},
                     MaxRoundOps)]_vars

(* ------------------------ the terms of the properties ----------------- *)

(* SpecRestore: each task saves the early hour of Wednesday as its template
   or for the visible week, the application exports the state and keeps it,
   the page is loaded again (a new engine is constructed) and the state kept
   is imported. *)
MaxRestoreOps == 5
SpecRestore ==
  /\ InitOf({Wednesday}, {Measured})
  /\ [][\/ SaveRangesOf(Keys, {"recurring", "week"}, {OneDay(3, Early)}, MaxRestoreOps)
        \/ GetStateOf(MaxRestoreOps)
        \/ held.object # Undefined
             /\ Do(Plain("constructor"), Constructed(TASKS), MaxRestoreOps)
        \/ SetHeldOf(MaxRestoreOps)]_vars

(* SpecTie: the application replaces the catalog by one of three tasks, in
   one order or the other, restores a store in which the three tasks hold the
   same template with no stamp at all, or with work and commute on one stamp,
   repaints, and each task saves the early hour of Wednesday for the week. *)
MaxTieOps == 3
TieCatalogs == {<<"work", "commute", "sleep">>, <<"sleep", "commute", "work">>}
SpecTie ==
  /\ InitOf({Wednesday}, {Measured})
  /\ [][\/ ReplaceCatalogOf(TieCatalogs, MaxTieOps)
        \/ SetStateOf({[EXACT |-> Some([k \in {"work", "commute", "sleep"} |-> Nightly]),
                        EXCEPTIONS |-> Undefined,
                        ORDER |-> Some([recurring |-> stamps, week |-> EmptyMap,
                                        month |-> EmptyMap]),
                        LAST_SCOPE |-> Undefined] :
                         stamps \in {EmptyMap, [k \in {"work", "commute"} |-> 1]}},
                      MaxTieOps)
        \/ RebuildOf(MaxTieOps)
        \/ SaveRangesOf({TASKS[i] : i \in 1..Len(TASKS)}, {"week"},
                        {OneDay(3, Early)}, MaxTieOps)]_vars

(* SpecStamp: from the fresh engine, each task saves the early hour of
   Wednesday at any of the four scopes, and pages are turned. *)
MaxStampOps == 3
SpecStamp ==
  /\ InitOf({Wednesday}, {Measured})
  /\ [][\/ SaveRangesOf(Keys, Scopes, {OneDay(3, Early)}, MaxStampOps)
        \/ GotoWeekOf({-1, 1}, MaxStampOps)]_vars

Has2(m, k, t) == k \in DOMAIN m /\ t \in DOMAIN m[k]

\* slot s, the quarter hour from minute 15s, lies in range r / in a day list
InRange(r, s) == r.startMin <= 15 * s /\ 15 * s < r.endMin
Covers(dayList, s) == \E j \in 1..Len(dayList) : InRange(dayList[j], s)

WeekKeyOf(self) == _fmtWeekKey(self.visibleWeekFirst)
MonthKeyOf(self) == _fmtMonthKey(self.visibleWeekFirst)
DateKeyOf(self, d) == _fmtDate(self.visibleWeekFirst + d)

\* day d of task T below the date exceptions: week, else month, else template
Fallback(self, T, d) ==
  IF Has2(self.EXCEPTIONS.byWeek, WeekKeyOf(self), T)
  THEN DayOf(self.EXCEPTIONS.byWeek[WeekKeyOf(self)][T], d)
  ELSE IF Has2(self.EXCEPTIONS.byMonth, MonthKeyOf(self), T)
  THEN DayOf(self.EXCEPTIONS.byMonth[MonthKeyOf(self)][T], d)
  ELSE IF T \in DOMAIN self.EXACT THEN DayOf(self.EXACT[T], d)
  ELSE <<>>

\* day d of task T: the date exception if there is one, else the layer below
Layered(self, T, d) ==
  IF Has2(self.EXCEPTIONS.byDate, DateKeyOf(self, d), T)
  THEN self.EXCEPTIONS.byDate[DateKeyOf(self, d)][T]
  ELSE Fallback(self, T, d)

\* the order stamps of task T that are defined for the visible week's keys
Stamps(self, T) ==
  {self.ORDER.week[k][T] : k \in {k \in {WeekKeyOf(self)} : Has2(self.ORDER.week, k, T)}}
    \cup {self.ORDER.month[k][T] : k \in {k \in {MonthKeyOf(self)} : Has2(self.ORDER.month, k, T)}}
    \cup {self.ORDER.recurring[t] : t \in {T} \cap DOMAIN self.ORDER.recurring}

\* T has a strictly lower effective sequence than U; the unstamped come last
Outranks(self, T, U) ==
  /\ Stamps(self, T) # {}
  /\ Stamps(self, U) = {} \/ Least(Stamps(self, T)) < Least(Stamps(self, U))

\* the last API call completed its render pass
Rendered == \E i \in 1..Len(calls) : calls[i] = "onRenderBlocks"

(* ------------------------------ properties ---------------------------- *)

\* C1: after a completed render pass every cell of the grid holds at most one
\* task: a task of lowest effective sequence among those whose effective ranges
\* cover the slot (the holder covers it and no coverer outranks the holder),
\* and the cell is empty exactly when no task's effective ranges cover it.
GridByPriority ==
  Rendered =>
    /\ \A d \in Days, s \in Slots : _allSlots[d][s] \in Keys \cup {NULL}
    /\ \A T \in Keys, d \in Days : \A L \in {Layered(this, T, d)} : \A s \in Slots :
         /\ _allSlots[d][s] = T => Covers(L, s)
         /\ Covers(L, s) => _allSlots[d][s] \in Keys
    /\ \A T \in Keys, U \in Keys :
         Outranks(this, T, U) =>
           \A d \in Days : \A L \in {Layered(this, T, d)} : \A s \in Slots :
             Covers(L, s) => _allSlots[d][s] # U

\* a rendered cell that both tasks cover and the second task of the catalog,
\* stamped earlier, holds
ContestedCell ==
  /\ Rendered
  /\ Outranks(this, Catalog[2], Catalog[1])
  /\ \E d \in Days : \E L \in {[i \in 1..2 |-> Layered(this, Catalog[i], d)]} :
       \E s \in Slots :
         /\ Covers(L[1], s)
         /\ Covers(L[2], s)
         /\ _allSlots[d][s] = Catalog[2]

\* C5: the effective ranges of every task and day are the date exception if
\* one exists, else the week override's day (empty or not), else the month
\* override's day, else the template's day; each day is resolved on its own.
EffectiveIsLayered ==
  \A T \in Keys : \A eff \in {_effectiveExactForTask(this, T)} :
    \A d \in Days : eff[d] = Layered(this, T, d)

\* work has all four layers, pairwise different on Wednesday; Wednesday resolves
\* to the date exception and Tuesday to the week override
AllLayersPresent ==
  LET wk == WeekKeyOf(this)
      mo == MonthKeyOf(this)
  IN /\ Has2(EXCEPTIONS.byDate, DateKeyOf(this, 3), "work")
     /\ ~Has2(EXCEPTIONS.byDate, DateKeyOf(this, 2), "work")
     /\ Has2(EXCEPTIONS.byWeek, wk, "work")
     /\ Has2(EXCEPTIONS.byMonth, mo, "work")
     /\ Cardinality({EXCEPTIONS.byDate[DateKeyOf(this, 3)]["work"],
                     EXCEPTIONS.byWeek[wk]["work"][3],
                     EXCEPTIONS.byMonth[mo]["work"][3], EXACT["work"][3]}) = 4
     /\ _effectiveExactForTask(this, "work")[3] = EXCEPTIONS.byDate[DateKeyOf(this, 3)]["work"]
     /\ _effectiveExactForTask(this, "work")[2] = EXCEPTIONS.byWeek[wk]["work"][2]

\* the date and the day index that the today scope resolves to
TodayDateOf(self) ==
  IF self.visibleWeekFirst <= today /\ today <= self.visibleWeekFirst + 6 THEN today
  ELSE self.visibleWeekFirst
TodayIndexOf(self) == TodayDateOf(self) - self.visibleWeekFirst
TodayKeyOf(self) == _fmtDate(TodayDateOf(self))

\* the last API call was saveRanges at the given scope
SavedAt(scope) == lastCall.name = "saveRanges" /\ lastCall.scope = scope

\* a submission with no range on any day
AllEmpty(W) == \A d \in DOMAIN W : W[d] = <<>>

\* slot s of day d lies in a range submitted for day d (an overnight range
\* runs to midnight on its own day)
Asks(W, d, s) ==
  \E j \in 1..Len(DayOf(W, d)) :
    LET r == DayOf(W, d)[j]
    IN IF r.startMin < r.endMin THEN InRange(r, s)
       ELSE r.endMin < r.startMin /\ r.startMin <= 15 * s

\* the last call saved no ranges at today scope for a task that had a
\* non-empty date exception on the resolved date
ClearedToday ==
  /\ SavedAt("today")
  /\ AllEmpty(lastCall.weekRanges)
  /\ Has2(before.self.EXCEPTIONS.byDate, TodayKeyOf(before.self), lastCall.taskKey)
  /\ before.self.EXCEPTIONS.byDate[TodayKeyOf(before.self)][lastCall.taskKey] # <<>>

\* C6: saving empty ranges at today scope over a non-empty date exception
\* removes the task's entry for that date (and the date's whole entry when no
\* other task has one), and in the grid rendered afterwards the task's slots on
\* that day are those of its week override, else month override, else template,
\* subject to priority against the other tasks.
FallsBackOnDeletion ==
  ClearedToday =>
    LET T == lastCall.taskKey
        dk == TodayKeyOf(this)
        i == TodayIndexOf(this)
    IN /\ ~Has2(EXCEPTIONS.byDate, dk, T)
       /\ dk \in DOMAIN EXCEPTIONS.byDate
            <=> DOMAIN before.self.EXCEPTIONS.byDate[dk] # {T}
       /\ Rendered =>
            \A L \in {Fallback(this, T, i)} : \A s \in Slots :
              /\ _allSlots[i][s] = T => Covers(L, s)
              /\ (/\ Covers(L, s)
                  /\ \A U \in Keys \ {T} :
                       Covers(Layered(this, U, i), s) => Outranks(this, T, U))
                 => _allSlots[i][s] = T

\* a date exception was cleared and the layer below it now shows in the grid
FellBack ==
  /\ ClearedToday
  /\ Rendered
  /\ Fallback(this, lastCall.taskKey, TodayIndexOf(this)) # <<>>
  /\ Fallback(this, lastCall.taskKey, TodayIndexOf(this))
       # before.self.EXCEPTIONS.byDate[TodayKeyOf(before.self)][lastCall.taskKey]
  /\ \E s \in Slots : _allSlots[TodayIndexOf(this)][s] = lastCall.taskKey

\* C2: a save never displaces another task: every cell held by a task other
\* than the saving one just before saveRanges is still held by that task in
\* the grid rendered just after it.
SaveNeverDisplaces ==
  lastCall.name = "saveRanges" =>
    \A d \in Days, s \in Slots :
      before.self._allSlots[d][s] \in Keys \ {lastCall.taskKey}
        => _allSlots[d][s] = before.self._allSlots[d][s]

\* task A was stamped at recurring scope before task B
StampedBefore(self, A, B) ==
  /\ A \in DOMAIN self.ORDER.recurring
  /\ B \in DOMAIN self.ORDER.recurring
  /\ self.ORDER.recurring[A] < self.ORDER.recurring[B]

\* the task has a week stamp for the visible week
WeekStamped(self, T) == Has2(self.ORDER.week, WeekKeyOf(self), T)
MonthStamped(self, T) == Has2(self.ORDER.month, MonthKeyOf(self), T)

\* C10: priority determinism.  With A stamped at recurring scope before B and
\* both covering a slot, A holds it in every week where B has no week save; once
\* B is saved at week scope over that slot in the visible week, A's stamps
\* unchanged, B holds the slot in that week.
PriorityDeterminism ==
  \A A \in Keys, B \in Keys :
    /\ (/\ StampedBefore(this, A, B)
        /\ ~WeekStamped(this, A) /\ ~MonthStamped(this, A)
        /\ ~WeekStamped(this, B) /\ ~MonthStamped(this, B)
        /\ Rendered)
       => \A d \in Days : \A L \in {[T \in {A, B} |-> Layered(this, T, d)]} :
            \A s \in Slots : Covers(L[A], s) /\ Covers(L[B], s) => _allSlots[d][s] = A
    /\ (/\ SavedAt("week")
        /\ lastCall.taskKey = B
        /\ StampedBefore(before.self, A, B)
        /\ ~WeekStamped(before.self, A) /\ ~MonthStamped(before.self, A)
        /\ Rendered)
       => \A d \in Days : \A L \in {[T \in {A, B} |-> Layered(before.self, T, d)]} :
            \A s \in Slots :
              Covers(L[A], s) /\ Covers(L[B], s) /\ Asks(lastCall.weekRanges, d, s)
                => _allSlots[d][s] = B

\* the Range Store: templates, exceptions and order stamps
RangeStoreOf(self) == <<self.EXACT, self.EXCEPTIONS, self.ORDER>>

\* the last two calls were saveRanges(T, scope, R) and then, with nothing in
\* between, saveRanges(T, scope, getExactForScope(T, scope))
SavedBack ==
  /\ lastCall.name = "saveRanges"
  /\ before.lastCall.name = "saveRanges"
  /\ lastCall.taskKey = before.lastCall.taskKey
  /\ lastCall.scope = before.lastCall.scope
  /\ lastCall.weekRanges = getExactForScope(before.self, lastCall.taskKey, lastCall.scope)

\* C3: clipping is idempotent: saving back at the same scope what
\* getExactForScope returns right after a save leaves the whole Range Store
\* as the first save left it.
ClippingIsIdempotent == SavedBack => RangeStoreOf(this) = RangeStoreOf(before.self)

\* a stored day list in good form
WellFormedDay(l) ==
  /\ Len(l) <= 4
  /\ \A j \in 1..Len(l) :
       /\ 0 <= l[j].startMin /\ l[j].startMin < l[j].endMin /\ l[j].endMin <= 1440
       /\ l[j].startMin % 15 = 0 /\ l[j].endMin % 15 = 0
  /\ \A j \in 1..(Len(l) - 1) : l[j].endMin < l[j + 1].startMin

\* every day list held in recurring, byWeek, byMonth and byDate
StoredDayLists ==
  {EXACT[T][d] : T \in DOMAIN EXACT, d \in Days}
    \cup UNION {{EXCEPTIONS.byWeek[k][T][d] : T \in DOMAIN EXCEPTIONS.byWeek[k], d \in Days}
                  : k \in DOMAIN EXCEPTIONS.byWeek}
    \cup UNION {{EXCEPTIONS.byMonth[k][T][d] : T \in DOMAIN EXCEPTIONS.byMonth[k], d \in Days}
                  : k \in DOMAIN EXCEPTIONS.byMonth}
    \cup UNION {{EXCEPTIONS.byDate[k][T] : T \in DOMAIN EXCEPTIONS.byDate[k]}
                  : k \in DOMAIN EXCEPTIONS.byDate}

\* C4: from the fresh engine, after any saveRanges and gotoWeek calls with
\* arbitrary integer endpoints, every stored day list has at most 4 ranges,
\* each with 0 <= startMin < endMin <= 1440 on multiples of 15, sorted by start,
\* and consecutive ranges neither overlap nor touch.
StoredWellFormed == \A l \in StoredDayLists : WellFormedDay(l)

\* the ragged submission was saved as a template: rounded, cut to the day,
\* merged where ranges overlap or touch, its reversed range run to midnight
RaggedSaved ==
  /\ SavedAt("recurring")
  /\ lastCall.weekRanges = OneDay(3, Messy)
  /\ EXACT[lastCall.taskKey][3] = <<Range(0, 45), Range(105, 195), Range(210, 1440)>>
  /\ EXACT[lastCall.taskKey][4] = <<Range(0, 300)>>

\* every range of the submission lies within the day on multiples of 15
Aligned(W) ==
  \A d \in DOMAIN W : \A j \in 1..Len(W[d]) :
    /\ 0 <= W[d][j].startMin /\ W[d][j].startMin < W[d][j].endMin /\ W[d][j].endMin <= 1440
    /\ W[d][j].startMin % 15 = 0 /\ W[d][j].endMin % 15 = 0

\* the maximal runs of consecutive slots of S, as <<start minute, end minute>>
RunsOf(S) ==
  LET ends == {b \in 1..SLOTS_PER_DAY : (b - 1) \in S /\ b \notin S}
  IN {<<15 * a, 15 * Least({b \in ends : b > a})>> : a \in {a \in S : (a - 1) \notin S}}

AsPairs(l) == {<<l[j].startMin, l[j].endMin>> : j \in 1..Len(l)}

\* what a save of task T at the scope left stored for day d of the visible week
StoredDay(self, T, scope, d) ==
  IF scope = "recurring" THEN self.EXACT[T][d]
  ELSE IF scope = "week" THEN self.EXCEPTIONS.byWeek[WeekKeyOf(self)][T][d]
  ELSE IF scope = "month" THEN self.EXCEPTIONS.byMonth[MonthKeyOf(self)][T][d]
  ELSE IF Has2(self.EXCEPTIONS.byDate, DateKeyOf(self, d), T)
  THEN self.EXCEPTIONS.byDate[DateKeyOf(self, d)][T]
  ELSE <<>>

\* the days whose stored list a save at the scope decides
DaysSaved(self, scope) == IF scope = "today" THEN {TodayIndexOf(self)} ELSE Days

\* C9: after a save, the list persisted for a day holds the separate runs of
\* the clipped result (the slots asked for that no other task covers), and when
\* there are more than 4 of them exactly the 4 with the smallest start times.
KeepsFirstFour ==
  (lastCall.name = "saveRanges" /\ Aligned(lastCall.weekRanges)) =>
    \A d \in DaysSaved(this, lastCall.scope) :
      \A others \in {{Layered(before.self, U, d) : U \in Keys \ {lastCall.taskKey}}} :
        \A runs \in {RunsOf({s \in Slots : /\ Asks(lastCall.weekRanges, d, s)
                                          /\ \A L \in others : ~Covers(L, s)})} :
          \A kept \in {StoredDay(this, lastCall.taskKey, lastCall.scope, d)} :
            /\ AsPairs(kept) \subseteq runs
            /\ Len(kept) = Cardinality(AsPairs(kept))
            /\ Len(kept) = Min(4, Cardinality(runs))
            /\ \A x \in AsPairs(kept), y \in runs \ AsPairs(kept) : x[1] < y[1]

\* six separate quarter hours were saved with nothing in the way, and the
\* first four by start time are what is stored
SixCutToFour ==
  /\ lastCall.name = "saveRanges"
  /\ lastCall.weekRanges = OneDay(3, SixRuns)
  /\ \A U \in Keys : Layered(before.self, U, 3) = <<>>
  /\ StoredDay(this, lastCall.taskKey, lastCall.scope, 3) = SubSeq(SixRuns, 1, 4)

\* the engine turned to the week that holds the calendar date
WeekOf(self, date) == [self EXCEPT !.visibleWeekFirst = date - getDay(date)]

\* the effective ranges of task U on the calendar date cover slot s
CoversOn(self, U, date, s) == Covers(Layered(WeekOf(self, date), U, getDay(date)), s)

\* the date exception stored for task T on the calendar date, if any
DateEntry(self, T, date) ==
  IF Has2(self.EXCEPTIONS.byDate, _fmtDate(date), T)
  THEN self.EXCEPTIONS.byDate[_fmtDate(date)][T]
  ELSE <<>>

InList(r, l) == \E j \in 1..Len(l) : l[j] = r

\* the last call was a today-scope save whose ranges for the resolved today
\* hold the overnight range 23:00 -> 01:00
SavedOvernightToday ==
  /\ SavedAt("today")
  /\ InList(Range(1380, 60), DayOf(lastCall.weekRanges, TodayIndexOf(before.self)))

\* C7: on every weekday, Saturday included, a today-scope save holding the
\* range 1380 -> 60, with no other task on those slots, stores [1380,1440)
\* for today's date and [0,60) for the following calendar date.
OvernightSplits ==
  (/\ SavedOvernightToday
   /\ \A U \in Keys \ {lastCall.taskKey} :
        /\ \A s \in 92..95 : ~CoversOn(before.self, U, TodayDateOf(before.self), s)
        /\ \A s \in 0..3 : ~CoversOn(before.self, U, TodayDateOf(before.self) + 1, s))
  => /\ InList(Range(1380, 1440), DateEntry(this, lastCall.taskKey, TodayDateOf(this)))
     /\ InList(Range(0, 60), DateEntry(this, lastCall.taskKey, TodayDateOf(this) + 1))

\* C8: after a today-scope save with an overnight range, on every weekday,
\* Saturday included, the exception stored for today covers no slot that
\* another task's effective ranges cover today, and the one stored for the
\* following calendar date covers no slot that another task's effective ranges
\* cover on that date.
HalvesRespectOccupancy ==
  SavedOvernightToday =>
    \A date \in {TodayDateOf(this), TodayDateOf(this) + 1} :
      \A mine \in {DateEntry(this, lastCall.taskKey, date)} :
        \A U \in Keys \ {lastCall.taskKey}, s \in Slots :
          Covers(mine, s) => ~CoversOn(this, U, date, s)

\* the Range Store with the remembered scopes
StoreAndScopes(self) == <<self.EXACT, self.EXCEPTIONS, self.ORDER, self.LAST_SCOPE>>

Readers ==
  {"gotoWeek", "rebuild", "getDurations", "getWeekTitle", "activeScopeForTask",
   "getExactForScope", "getState"}

\* C11: recurring, byDate, byWeek, byMonth, the order stamps and lastScope are
\* after gotoWeek, rebuild, getDurations, getWeekTitle, activeScopeForTask,
\* getExactForScope and getState what they were before the call; if they differ
\* from what the last call found, that call was saveRanges or setState.
ReadersLeaveStore ==
  /\ lastCall.name \in Readers => StoreAndScopes(this) = StoreAndScopes(before.self)
  /\ StoreAndScopes(this) # StoreAndScopes(before.self)
       => lastCall.name \in {"saveRanges", "setState"}

\* a page is turned while the store holds overrides, stamps and a remembered scope
TurnedWithOverrides ==
  /\ lastCall.name = "gotoWeek"
  /\ weekOffset # 0
  /\ DOMAIN EXCEPTIONS.byWeek # {}
  /\ DOMAIN EXCEPTIONS.byDate # {}
  /\ DOMAIN ORDER.month # {}
  /\ DOMAIN LAST_SCOPE # {}

\* the probe reports no size, no width or no height
Unmeasurable == size = Undefined \/ Val(size).width = 0 \/ Val(size).height = 0

\* C12: when the probe reports a missing size or a width or height of 0, the
\* render pass of gotoWeek, saveRanges, rebuild and setState invokes the title,
\* weekday-label and hour-label callbacks and no other, and leaves the cached
\* geometry and the slot grid as they were; saveRanges has still stored the
\* clipped ranges with their stamp and the scope, setState the parts it was given.
UnmeasuredPassSkips ==
  (Unmeasurable /\ lastCall.name \in {"gotoWeek", "saveRanges", "rebuild", "setState"}) =>
    /\ calls = <<"onRenderTitle", "onRenderLabels", "onRenderHours">>
    /\ _geom = before.self._geom
    /\ _allSlots = before.self._allSlots
    /\ lastCall.name = "saveRanges" =>
         /\ StoreAndScopes(this) =
              StoreAndScopes(saveStore(before.self, lastCall.taskKey, lastCall.scope,
                                       lastCall.weekRanges))
         /\ LAST_SCOPE[lastCall.taskKey] = lastCall.scope
    /\ lastCall.name = "setState" =>
         \A p \in Parts : Val(held.object)[p] # Undefined => this[p] = Val(Val(held.object)[p])

\* a save made while the container has no size, after a pass that painted: the
\* template is stored and stamped, the painted grid and geometry stay
SavedUnmeasured ==
  /\ Unmeasurable
  /\ lastCall.name = "saveRanges"
  /\ lastCall.scope = "recurring"
  /\ EXACT[lastCall.taskKey][3] = Early
  /\ EXACT # before.self.EXACT
  /\ ORDER # before.self.ORDER
  /\ _geom # Undefined
  /\ Len(calls) = 3

\* the grid that the current Range Store determines for the visible week
GridOfStore == _rebuildSlotsForVisibleWeek(this)._allSlots

\* C13: in every reachable state, whatever sizes the probe returned,
\* getDurations() gives for each task of the catalog 15 times the number of
\* slots the task occupies in the grid of the visible week as the current
\* Range Store determines it.
DurationsFollowStore ==
  \A G \in {GridOfStore} :
    getDurations(this) =
      [k \in Keys |-> 15 * Cardinality({ds \in Days \X Slots : G[ds[1]][ds[2]] = k})]

\* the last call was setState with the object getState makes of the engine as
\* the call found it
RoundTrip ==
  /\ lastCall.name = "setState"
  /\ held.object = Some(AllGiven(getState(before.self)))

CatalogKeys == {TASKS[i] : i \in 1..Len(TASKS)}

\* w is a WeekRanges: a list of ranges for each of the 7 days
SevenDays(w) ==
  /\ DOMAIN w = Days
  /\ \A d \in Days : \A j \in 1..Len(w[d]) : DOMAIN w[d][j] = {"startMin", "endMin"}

\* C15 as stated: in every reachable state recurring holds a 7-day WeekRanges
\* entry for every task of the current catalog.
TemplateForEveryTask ==
  \A T \in CatalogKeys : T \in DOMAIN EXACT /\ SevenDays(EXACT[T])

\* C15: after construction recurring holds an entry for every task of the
\* catalog, and in every reachable state every entry recurring holds is a 7-day
\* WeekRanges; replaceCatalog leaves recurring as it is, and setState with an
\* EXACT map leaves recurring with the keys of that map, so that a task of the
\* catalog may have no entry: its recurring ranges then read as empty.
TemplateEntriesAreWeeks ==
  /\ lastCall.name = "constructor" => DOMAIN EXACT = CatalogKeys
  /\ \A T \in DOMAIN EXACT : SevenDays(EXACT[T])
  /\ lastCall.name = "replaceCatalog" => EXACT = before.self.EXACT
  /\ (lastCall.name = "setState" /\ Val(held.object).EXACT # Undefined)
        => DOMAIN EXACT = DOMAIN Val(Val(held.object).EXACT)
  /\ \A T \in CatalogKeys \ DOMAIN EXACT :
        getExactForScope(this, T, "recurring") = _blankWeekRanges

\* a template that gave Wednesday alone was restored as a week, and the catalog
\* then replaced by one with a task that has no entry
NewTaskWithoutTemplate ==
  /\ lastCall.name = "replaceCatalog"
  /\ before.lastCall.name = "setState"
  /\ DOMAIN EXACT = {"work"}
  /\ EXACT["work"][3] = Early
  /\ "sleep" \in CatalogKeys

\* f[0] + ... + f[n-1]
RECURSIVE SumTo(_, _)
SumTo(f, n) == IF n = 0 THEN 0 ELSE SumTo(f, n - 1) + f[n - 1]

\* C16: for the measured width W and height H, the 7 column widths sum to W,
\* each is floor(W/7) except the first (W mod 7), which are one wider; the 24
\* row heights sum to H, the first (H mod 24) one taller; the quarter-slot
\* offsets never decrease, slotY[4h] = rowY[h] for every hour h, and
\* slotY[96] = H.
GeometryIsExact ==
  _geom # Undefined =>
    \A g \in {Val(_geom)} :
      /\ g.totalW = Val(size).width /\ g.totalH = Val(size).height
      /\ SumTo(g.colW, 7) = g.totalW
      /\ \A c \in 0..6 :
           g.colW[c] = (g.totalW \div 7) + (IF c < g.totalW % 7 THEN 1 ELSE 0)
      /\ SumTo(g.rowH, 24) = g.totalH
      /\ \A h \in 0..23 :
           g.rowH[h] = (g.totalH \div 24) + (IF h < g.totalH % 24 THEN 1 ELSE 0)
      /\ DOMAIN g.slotY = 0..SLOTS_PER_DAY
      /\ \A i \in 0..(SLOTS_PER_DAY - 1) : g.slotY[i] <= g.slotY[i + 1]
      /\ \A h \in 0..24 : g.slotY[4 * h] = g.rowY[h]
      /\ g.slotY[SLOTS_PER_DAY] = g.totalH

\* a repaint computed the geometry of a size that 7, 24 and 4 do not divide:
\* columns, rows and quarters of two sizes each
UnevenGeometry ==
  /\ lastCall.name = "rebuild"
  /\ _geom # Undefined
  /\ Val(_geom).totalW % 7 # 0
  /\ Val(_geom).totalH % 24 # 0
  /\ \E h \in 0..23 : Val(_geom).rowH[h] % 4 # 0
  /\ \E h \in 0..23 : Val(_geom).slotY[4 * h + 1] - Val(_geom).slotY[4 * h]
                         # Val(_geom).slotY[4 * h + 2] - Val(_geom).slotY[4 * h + 1]

\* the quarter-hour mark nearest to minute m, halves going up
Quarter(m) == CHOOSE q \in -8..104 : 30 * q - 15 <= 2 * m /\ 2 * m < 30 * q + 15

\* the ranges submitted for day d, each as <<a, b>>: the quarter-hour marks
\* nearest to its start and to its end
Rounded(W, d) ==
  [j \in 1..Len(DayOf(W, d)) |->
     <<Quarter(DayOf(W, d)[j].startMin), Quarter(DayOf(W, d)[j].endMin)>>]

\* slot s lies in a rounded range of the day's own list (a backwards range
\* running up to midnight) or in the early part of a backwards range of the
\* list of the day before
AsksIn(own, prev, s) ==
  \/ \E j \in 1..Len(own) :
        \/ own[j][1] < own[j][2] /\ own[j][1] <= s /\ s < own[j][2]
        \/ own[j][2] < own[j][1] /\ own[j][1] <= s
  \/ \E j \in 1..Len(prev) : prev[j][2] < prev[j][1] /\ s < prev[j][2]

\* the slots of day d that submission W requests once split and quantized
RequestedSlots(W, d) ==
  UNION {{s \in Slots : AsksIn(own, prev, s)} :
            own \in {Rounded(W, d)}, prev \in {Rounded(W, (d + 6) % 7)}}

\* a range of W runs backwards and its endpoints round to the same mark
Collapses(r) == r.endMin < r.startMin /\ Quarter(r.endMin) = Quarter(r.startMin)
HasCollapsed(W) == \E d \in DOMAIN W : \E j \in 1..Len(W[d]) : Collapses(W[d][j])

\* the slots of a run <<start minute, end minute>>
SlotsOfRun(run) == {s \in Slots : run[1] <= 15 * s /\ 15 * s < run[2]}

ReclaimsOwnSlots ==
  (lastCall.name = "saveRanges" /\ lastCall.scope = "week") =>
    \A d \in Days :
      \A kept \in {StoredDay(this, lastCall.taskKey, "week", d)} :
        \A open \in {{s \in RequestedSlots(lastCall.weekRanges, d) :
                        before.self._allSlots[d][s] \in {lastCall.taskKey, NULL}}} :
          Cardinality(RunsOf(open)) <= MaxRangesPerDay =>
            \A s \in open :
              before.self._allSlots[d][s] = lastCall.taskKey => Covers(kept, s)

\* both endpoints of every range of W round to the same quarter-hour mark
AllRoundToOneMark(W) ==
  \A d \in DOMAIN W : \A j \in 1..Len(W[d]) :
    Quarter(W[d][j].startMin) = Quarter(W[d][j].endMin)

\* C19: a submitted range whose endpoints round to the same 15-minute mark is
\* discarded, whichever endpoint is the larger before rounding: a save of such
\* ranges alone persists no slot on any day (the week entry is seven empty
\* days; at today scope the task has no exception on the resolved date) and
\* is no overnight split (the next date's exception is not written).
CollapsedIsDiscarded ==
  (lastCall.name = "saveRanges" /\ AllRoundToOneMark(lastCall.weekRanges)) =>
    /\ lastCall.scope = "week" =>
         \A d \in Days : StoredDay(this, lastCall.taskKey, "week", d) = <<>>
    /\ lastCall.scope = "today" =>
         /\ DateEntry(this, lastCall.taskKey, TodayDateOf(this)) = <<>>
         /\ DateEntry(this, lastCall.taskKey, TodayDateOf(this) + 1)
              \in {<<>>, DateEntry(before.self, lastCall.taskKey, TodayDateOf(this) + 1)}

\* the date exception of task T on the calendar date: undefined or the list
EntryOn(self, T, date) == Get2(self.EXCEPTIONS.byDate, _fmtDate(date), T)

\* the store of self2 differs from that of self1 at most in the date
\* exceptions of task T on the two dates and in the scope remembered for T
SameButFor(self1, self2, T, dates) ==
  /\ self2.EXACT = self1.EXACT
  /\ self2.EXCEPTIONS.byWeek = self1.EXCEPTIONS.byWeek
  /\ self2.EXCEPTIONS.byMonth = self1.EXCEPTIONS.byMonth
  /\ self2.ORDER = self1.ORDER
  /\ \A U \in Keys \ {T} : Get(self2.LAST_SCOPE, U) = Get(self1.LAST_SCOPE, U)
  /\ \A k \in DOMAIN self1.EXCEPTIONS.byDate \cup DOMAIN self2.EXCEPTIONS.byDate :
       \A U \in Keys :
         (U # T \/ k \notin {_fmtDate(date) : date \in dates})
            => Get2(self2.EXCEPTIONS.byDate, k, U) = Get2(self1.EXCEPTIONS.byDate, k, U)

\* no range submitted for day d runs backwards once its endpoints are rounded
NoOvernightOn(W, d) ==
  \A j \in 1..Len(DayOf(W, d)) :
    Quarter(DayOf(W, d)[j].startMin) <= Quarter(DayOf(W, d)[j].endMin)

\* C20: a save at today scope changes nothing in the store but the date
\* exception of the task on the resolved today, its spillover entry on the
\* following date, and the scope remembered for the task; and when no range
\* submitted for the resolved today splits overnight, the exception of the
\* following date is as it was before the save, neither written nor deleted.
TodaySaveFrame ==
  SavedAt("today") =>
    \A date \in {TodayDateOf(this)} :
      /\ SameButFor(before.self, this, lastCall.taskKey, {date, date + 1})
      /\ NoOvernightOn(lastCall.weekRanges, TodayIndexOf(this))
           => EntryOn(this, lastCall.taskKey, date + 1)
                = EntryOn(before.self, lastCall.taskKey, date + 1)

(* ------------------------------- C21 ---------------------------------- *)

\* every order stamp of the store, as <<scope, scope key, task, value>>
StampsOf(self) ==
  {<<"recurring", "", T, self.ORDER.recurring[T]>> : T \in DOMAIN self.ORDER.recurring}
    \cup UNION {{<<"week", k, T, self.ORDER.week[k][T]>> : T \in DOMAIN self.ORDER.week[k]} :
                 k \in DOMAIN self.ORDER.week}
    \cup UNION {{<<"month", k, T, self.ORDER.month[k][T]>> : T \in DOMAIN self.ORDER.month[k]} :
                 k \in DOMAIN self.ORDER.month}

\* the scope key a save at the scope writes under, in the week the engine shows
ScopeKeyOf(self, scope) ==
  IF scope = "week" THEN WeekKeyOf(self)
  ELSE IF scope = "month" THEN MonthKeyOf(self) ELSE ""

\* the stamp places <<scope, scope key, task>> that hold a stamp
StampedPlaces(self) == {<<x[1], x[2], x[3]>> : x \in StampsOf(self)}

\* C21: order stamps are first-writer-wins.  A saveRanges or gotoWeek call
\* leaves every stamp that was set with its value; gotoWeek and a today-scope
\* save set no stamp; a save at recurring, week or month scope sets a stamp at
\* its own scope key for its own task when that place held none, and sets no
\* stamp otherwise.
FirstWriterWins ==
  lastCall.name \in {"saveRanges", "gotoWeek"} =>
    \A old \in {StampsOf(before.self)}, new \in {StampsOf(this)} :
      /\ old \subseteq new
      /\ lastCall.name = "gotoWeek" => new = old
      /\ SavedAt("today") => new = old
      /\ \A scope \in Scopes \ {"today"} :
           SavedAt(scope) =>
             \A place \in {<<scope, ScopeKeyOf(before.self, scope), lastCall.taskKey>>} :
               IF place \in StampedPlaces(before.self)
               THEN new = old
               ELSE /\ {<<x[1], x[2], x[3]>> : x \in new \ old} = {place}
                    /\ Cardinality(new \ old) = 1

\* a task saves again at week scope where it holds a stamp, after another
\* save has taken a later stamp
SavedAgainLater ==
  /\ SavedAt("week")
  /\ \E x \in StampsOf(before.self) :
       /\ <<x[1], x[2], x[3]>> = <<"week", WeekKeyOf(before.self), lastCall.taskKey>>
       /\ x[4] + 1 < before.self._saveSeq

(* ------------------------------- C22 ---------------------------------- *)

\* C22: the stamp counter is monotonic over the whole store.  Whenever a save
\* assigns a new order stamp, its value is strictly greater than every order
\* stamp that the store held when saveRanges was called, also when the store
\* was loaded with setState from a state that another engine instance exported.
StampsAreMonotonic ==
  lastCall.name = "saveRanges" =>
    \A old \in {StampsOf(before.self)}, new \in {StampsOf(this)} :
      \A x \in new \ old : \A y \in old : y[4] < x[4]

(* ------------------------------- C23 ---------------------------------- *)

\* the place of task T in the catalog
PlaceOf(self, T) == CHOOSE i \in 1..Len(self.TASKS) : self.TASKS[i] = T

\* A and B resolve to the same effective sequence for the visible week: both
\* without a stamp, or the same least stamp
Tied(self, A, B) ==
  \/ Stamps(self, A) = {} /\ Stamps(self, B) = {}
  \/ /\ Stamps(self, A) # {}
     /\ Stamps(self, B) # {}
     /\ Least(Stamps(self, A)) = Least(Stamps(self, B))

\* C comes before A: a lower effective sequence, or the same and listed earlier
ComesBefore(self, C, A) ==
  \/ Outranks(self, C, A)
  \/ Tied(self, C, A) /\ PlaceOf(self, C) < PlaceOf(self, A)

\* the slot grids built from the store: the occupancy map for every excluded
\* task, and under NoExclude the grid of the visible week
BuiltFor(self) ==
  [X \in CatalogKeys \cup {NoExclude} |->
     IF X = NoExclude THEN _rebuildSlotsForVisibleWeek(self)._allSlots
     ELSE _buildOccupancyMap(self, X)]

\* the slots of each day that each catalog task's effective ranges cover
CoverOf(self) ==
  [T \in {self.TASKS[i] : i \in 1..Len(self.TASKS)} |->
     [d \in Days |-> UNION {{s \in Slots : Covers(L, s)} : L \in {Layered(self, T, d)}}]]

\* A is listed before B in the catalog and the two are tied
TiedInOrder(self, A, B) == PlaceOf(self, A) < PlaceOf(self, B) /\ Tied(self, A, B)

\* the slots of day d that A and B both cover and that no task coming before A
\* covers, X left aside
TiedSlots(self, cover, A, B, X, d) ==
  (cover[A][d] \cap cover[B][d])
    \ UNION {cover[C][d] : C \in {C \in DOMAIN cover \ {A, B, X} : ComesBefore(self, C, A)}}

\* C23: when two tasks resolve to the same effective priority sequence for the
\* visible week (both unstamped included), the slot grid builder and the
\* occupancy map of the save path take them in catalog order: a slot that both
\* tasks' effective ranges cover goes to the one listed earlier in the catalog,
\* in the grid after a completed render pass and in the occupancy map built
\* for any other task.
TiesGoToCatalogOrder ==
  \A built \in {BuiltFor(this)}, cover \in {CoverOf(this)} :
    \A A \in CatalogKeys, B \in CatalogKeys :
      TiedInOrder(this, A, B) =>
        \A X \in (CatalogKeys \cup {NoExclude}) \ {A, B}, d \in Days :
          \A tied \in {TiedSlots(this, cover, A, B, X, d)} :
            tied # {} =>
              \A row \in {built[X][d]} : \A s \in tied :
                /\ row[s] = A
                /\ X = NoExclude /\ Rendered => _allSlots[d][s] = A

\* with sleep listed first, sleep has saved for the week against an occupancy
\* map in which commute and work, on one stamp, cover the same slot, and the
\* rendered grid gives that slot to commute
TiedOnOneStamp ==
  /\ Rendered
  /\ TASKS = <<"sleep", "commute", "work">>
  /\ SavedAt("week")
  /\ lastCall.taskKey = "sleep"
  /\ Stamps(this, "commute") # {}
  /\ TiedInOrder(before.self, "commute", "work")
  /\ TiedInOrder(this, "commute", "work")
  /\ \E d \in Days :
       \E s \in TiedSlots(before.self, CoverOf(before.self), "commute", "work", "sleep", d)
                \cap TiedSlots(this, CoverOf(this), "commute", "work", NoExclude, d) :
         _allSlots[d][s] = "commute"
====
